---- MODULE Spec2Model ----
(***************************************************************************)
(* A model of the programs of stl_examples:                                *)
(*   - LRUCache       (lru_cache.cpp): std::list of (key, value) nodes     *)
(*                    plus an unordered_map from key to list iterator;     *)
(*   - SlidingMedian  (sliding_window_median.cpp): two std::multiset of    *)
(*                    long long, lo (lower half) and hi (upper half), and  *)
(*                    the loop of main that slides a window over a vector; *)
(*   - prefix_search  (autocomplete.cpp): the words of a sorted vector     *)
(*                    that start with a prefix;                            *)
(*   - main of top_k.cpp: the K most frequent of N words;                  *)
(*   - mergeK         (k_way_merge.cpp, as printed in the guide): merges   *)
(*                    sorted vectors through a priority_queue of Nodes.    *)
(* The programs share nothing, so each has a specification of its own      *)
(* (SpecCache, SpecCacheNonPositive, SpecMedian, SpecMain, SpecSearch,     *)
(* SpecTop, SpecMerge) over the module's variables; SpecRefined runs the   *)
(* LRUCache next to a cache that stamps each use with a counter; Spec      *)
(* runs the two classes.                                                   *)
(***************************************************************************)
EXTENDS Integers, Sequences, FiniteSets, TLC

(***************************************************************************)
(* Bounds of the model.                                                    *)
(***************************************************************************)
\* keys are 1..MaxKey
MaxKey == 4
\* a cache is constructed with a capacity in 1..MaxCap
MaxCap == 3
\* the values put are NOT_FOUND..MaxValue
MaxValue == 0
\* a tracker holds at most MaxActive values at a time
MaxActive == 4
\* the small values inserted and erased are -MaxSmall..MaxSmall
MaxSmall == 1
\* the large values inserted and erased are 2^53 + d and -(2^53 + d), d in 0..MaxPast
MaxPast == 1

VARIABLES
  \* ---- LRUCache ----
  cap,      \* int cap
  dll,      \* list<pair<int,int>> dll: the node ids, front first
  nodes,    \* the list's live nodes: node id -> [first |-> key, second |-> value]
  mp,       \* unordered_map<int,ListIt> mp: key -> node id (an iterator)
  lastUse,  \* history: the keys in the cache, in order of their last put or hit
  lastPut,  \* history: the value of the most recent put of each key in the cache
  call,     \* history: the last call, its arguments and its result
  \* ---- SlidingMedian ----
  lo,       \* multiset<long long> lo: its elements in the set's (ascending) order
  hi,       \* multiset<long long> hi: its elements in the set's (ascending) order
  active,   \* history: the values inserted and not yet erased, ascending
  tcall,    \* history: the last call, its argument and its result, the
            \* two sides as they were before an insert (before), and the
            \* number of values its balance() moved each way (moved)
  \* ---- main of sliding_window_median.cpp ----
  nums,     \* vector<int> nums
  mainK,    \* int k of main
  mainI,    \* int i of main's loop (nums[i] of the code is nums[mainI + 1] here)
  medians,  \* vector<double> medians
  pc,       \* where main is: "insert", "query" or "done" ("idle": not running)
  \* ---- autocomplete.cpp ----
  dict,     \* vector<string> dict, sorted
  p,        \* string p, the prefix searched for
  res,      \* vector<string> res, what prefix_search returned
  searchPc, \* "call" before the call of prefix_search, "done" after it
  \* ---- main of top_k.cpp ----
  N,        \* int N
  K,        \* int K
  cnt,      \* unordered_map<string,int> cnt
  topI,     \* int i of the loop that reads the words
  out,      \* the lines printed: pairs of a word and a count
  seen,     \* history: the words read, ascending
  topPc,    \* "read" while the words are read, "done" after printing
  \* ---- the recency-counter cache that an LRUCache is compared with ----
  ref,      \* key -> [value, stamp]
  clock,    \* the counter: the greatest stamp given
  refRet,   \* the result of its last get
  \* ---- mergeK (k_way_merge.cpp, printed in the guide) ----
  lists,    \* const vector<vector<int>>& lists
  pq,       \* priority_queue<Node, ...> pq: the Nodes it holds
  mergeOut, \* vector<int> out
  consumed, \* history: how many elements of each list have left pq
  mergePc   \* "fill" before the for loop, "merge" in the while loop, "done"

cacheVars == <<cap, dll, nodes, mp, lastUse, lastPut, call>>
medianVars == <<lo, hi, active, tcall>>
mainVars == <<nums, mainK, mainI, medians, pc>>
searchVars == <<dict, p, res, searchPc>>
topVars == <<N, K, cnt, topI, out, seen, topPc>>
refVars == <<ref, clock, refRet>>
mergeVars == <<lists, pq, mergeOut, consumed, mergePc>>

\* what the calls of one of the programs leave alone: the other programs
exceptRefined == <<medianVars, mainVars, searchVars, topVars, mergeVars>>
exceptCache == <<refVars, exceptRefined>>
exceptMedian == <<cacheVars, refVars, mainVars, searchVars, topVars, mergeVars>>
exceptMain == <<cacheVars, refVars, searchVars, topVars, mergeVars>>
exceptSearch == <<cacheVars, refVars, medianVars, mainVars, topVars, mergeVars>>
exceptTop == <<cacheVars, refVars, medianVars, mainVars, searchVars, mergeVars>>
exceptMerge == <<cacheVars, refVars, medianVars, mainVars, searchVars, topVars>>
vars == <<cap, dll, nodes, mp, lastUse, lastPut, call, lo, hi, active, tcall,
          nums, mainK, mainI, medians, pc, dict, p, res, searchPc,
          N, K, cnt, topI, out, seen, topPc, ref, clock, refRet,
          lists, pq, mergeOut, consumed, mergePc>>

(***************************************************************************)
(* LRUCache                                                                *)
(***************************************************************************)
\* get's result for a key that is not in mp
NOT_FOUND == -1

Keys == 1..MaxKey
Values == NOT_FOUND..MaxValue

\* pair<int,int>
Pair(k, v) == [first |-> k, second |-> v]

\* mp.find(key) != mp.end()
Found(m, key) == key \in DOMAIN m

\* a splice that leaves the node where it is
SpliceKeepsPlace(l, n) == l

\* a move to the front done as erase and push_front, the push_front forgotten
SpliceDropsNode(l, n) == SelectSeq(l, LAMBDA m : m # n)

\* a splice to dll.end(): the node becomes the last node
SpliceToBack(l, n) == SelectSeq(l, LAMBDA m : m # n) \o <<n>>

\* dll.splice(dll.begin(), dll, it): the node it refers to becomes the first
\* node; the other nodes keep their order, and every iterator stays valid
Splice(l, n) == <<n>> \o SelectSeq(l, LAMBDA m : m # n)

\* a read of the node's key for its value (it->second->first)
SecondReadsFirst(ns, n) == ns[n].first

\* it->second->second, read
Second(ns, n) == ns[n].second

\* a put that does not store the new value of a key it finds
SetSecondDropped(ns, n, v) == ns

\* it->second->second = value
SetSecond(ns, n, v) == [ns EXCEPT ![n].second = v]

\* the capacity test written dll.size() > cap
AtCapacityOffByOne(l, c) == Len(l) > c

\* (int)dll.size() == cap
AtCapacity(l, c) == Len(l) = c

\* an eviction at the front of the list (front() and pop_front())
FrontPos(l) == 1

\* the position of the node that dll.back() reads and dll.pop_back() removes
BackPos(l) == Len(l)

\* dll.back(): the last node
Back(l) == l[BackPos(l)]

\* dll.pop_back(), on the sequence of nodes
PopBack(l) ==
  [i \in 1..(Len(l) - 1) |-> IF i < BackPos(l) THEN l[i] ELSE l[i + 1]]

\* mp.erase(key)
MapErase(m, key) == [k \in DOMAIN m \ {key} |-> m[k]]

\* mp[key] = it
MapSet(m, key, n) == [k \in DOMAIN m \cup {key} |-> IF k = key THEN n ELSE m[k]]

\* the node emplace_front(key, value) allocates: any node that is not live.
\* Nodes are only compared for identity, so which one the allocator returns is
\* immaterial; the model takes the node numbered as the key when that one is
\* free, so that lists of the same pairs are made of the same nodes.
NewNode(ns, key) ==
  IF key \notin DOMAIN ns
    THEN key
    ELSE CHOOSE n \in 1..(MaxKey + Cardinality(DOMAIN ns) + 1) : n \notin DOMAIN ns

\* history: key k was used now
Touch(u, k) == SelectSeq(u, LAMBDA j : j # k) \o <<k>>

\* history: the claims ask for the last use and the last put of the keys that
\* are in the cache only, so the history of a key ends when the key leaves the
\* list (a later put of the key starts it again)
TrimUse(u, l, ns) == SelectSeq(u, LAMBDA j : \E i \in 1..Len(l) : ns[l[i]].first = j)
TrimPut(f, l, ns) == [k \in DOMAIN f \cap {ns[l[i]].first : i \in 1..Len(l)} |-> f[k]]

\* history: key's node is the last of a list of several nodes
AtBack(key) == Found(mp, key) /\ Len(dll) >= 2 /\ dll[Len(dll)] = mp[key]

\* history: the record of a call, taken as it starts (hit, back, size) and ends
Call(op, key, value, ret, evicted) ==
  [op |-> op, key |-> key, value |-> value, hit |-> Found(mp, key),
   back |-> AtBack(key), size |-> Len(dll), ret |-> ret, evicted |-> evicted]

InitCache ==
  /\ cap \in 1..MaxCap
  /\ dll = <<>>
  /\ nodes = <<>>
  /\ mp = <<>>
  /\ lastUse = <<>>
  /\ lastPut = <<>>
  /\ call = [op |-> "new", key |-> 0, value |-> 0, hit |-> FALSE,
             back |-> FALSE, size |-> 0, ret |-> <<>>, evicted |-> {}]

\* a get that looks the key up with mp[key], which inserts a key it does not find
GetBySubscript(key) ==
  IF ~Found(mp, key)
    THEN /\ call' = Call("get", key, 0, <<NOT_FOUND>>, {})
         /\ mp' = MapSet(mp, key, 0)
         /\ UNCHANGED <<cap, dll, nodes, lastUse, lastPut>>
    ELSE /\ dll' = Splice(dll, mp[key])
         /\ call' = Call("get", key, 0, <<Second(nodes, mp[key])>>, {})
         /\ lastUse' = TrimUse(Touch(lastUse, key), dll', nodes)
         /\ lastPut' = TrimPut(lastPut, dll', nodes)
         /\ UNCHANGED <<cap, nodes, mp>>

\* int get(int key)
Get(key) ==
  IF ~Found(mp, key)
    THEN /\ call' = Call("get", key, 0, <<NOT_FOUND>>, {})
         /\ UNCHANGED <<cap, dll, nodes, mp, lastUse, lastPut>>
    ELSE /\ dll' = Splice(dll, mp[key])
         /\ call' = Call("get", key, 0, <<Second(nodes, mp[key])>>, {})
         /\ lastUse' = TrimUse(Touch(lastUse, key), dll', nodes)
         /\ lastPut' = TrimPut(lastPut, dll', nodes)
         /\ UNCHANGED <<cap, nodes, mp>>

\* void put(int key, int value)
Put(key, value) ==
  /\ UNCHANGED cap
  /\ IF Found(mp, key)
       THEN /\ nodes' = SetSecond(nodes, mp[key], value)
            /\ dll' = Splice(dll, mp[key])
            /\ call' = Call("put", key, value, <<>>, {})
            /\ UNCHANGED mp
       ELSE LET full == AtCapacity(dll, cap)
                \* auto last = dll.back(); mp.erase(last.first); dll.pop_back();
                last == nodes[Back(dll)]
                mp1 == IF full THEN MapErase(mp, last.first) ELSE mp
                dll1 == IF full THEN PopBack(dll) ELSE dll
                \* pop_back destroys the node it removes
                nodes1 == IF full
                            THEN [m \in {dll1[i] : i \in 1..Len(dll1)} |-> nodes[m]]
                            ELSE nodes
                \* dll.emplace_front(key, value); mp[key] = dll.begin();
                n == NewNode(nodes1, key)
                dll2 == <<n>> \o dll1
            IN /\ dll' = dll2
               /\ nodes' = [m \in DOMAIN nodes1 \cup {n} |->
                              IF m = n THEN Pair(key, value) ELSE nodes1[m]]
               /\ mp' = MapSet(mp1, key, Head(dll2))
               /\ call' = Call("put", key, value, <<>>,
                               IF full THEN {last.first} ELSE {})
  /\ lastUse' = TrimUse(Touch(lastUse, key), dll', nodes')
  /\ lastPut' = TrimPut(MapSet(lastPut, key, value), dll', nodes')

NextCache ==
  \/ \E key \in Keys : Get(key) /\ UNCHANGED exceptCache
  \/ \E key \in Keys, value \in Values :
       Put(key, value) /\ UNCHANGED exceptCache

(***************************************************************************)
(* An LRUCache of capacity 0 or less. The constructor stores any int; put  *)
(* compares the size of the list, which is never negative, with it.        *)
(***************************************************************************)
\* LRUCache(int capacity) with capacity <= 0; put treats every negative
\* capacity alike (no size equals it), -1 stands for them
InitCacheNonPositive ==
  /\ cap \in -1..0
  /\ dll = <<>>
  /\ nodes = <<>>
  /\ mp = <<>>
  /\ lastUse = <<>>
  /\ lastPut = <<>>
  /\ call = [op |-> "new", key |-> 0, value |-> 0, hit |-> FALSE,
             back |-> FALSE, size |-> 0, ret |-> <<>>, evicted |-> {}]

\* put reaches dll.back() and dll.pop_back() with an empty list
BackOfEmpty(key) == ~Found(mp, key) /\ AtCapacity(dll, cap) /\ dll = <<>>

\* put(key, value) when dll.back() and dll.pop_back() are called on an empty
\* list, which is undefined: the process is ended (libstdc++'s pop_back
\* frees the list's own header: "free(): invalid pointer"), or it goes on,
\* last being whatever pair was read, nothing having left the list
PutBackOfEmpty(key, value) ==
  /\ BackOfEmpty(key)
  /\ \/ /\ call' = Call("abort", key, value, <<>>, {})
        /\ UNCHANGED <<cap, dll, nodes, mp, lastUse, lastPut>>
     \/ \E last \in {Pair(g, v) : g \in Keys, v \in Values} :
          LET mp1 == MapErase(mp, last.first)
              n == NewNode(nodes, key)
              dll2 == <<n>> \o dll
          IN /\ dll' = dll2
             /\ nodes' = [m \in DOMAIN nodes \cup {n} |->
                            IF m = n THEN Pair(key, value) ELSE nodes[m]]
             /\ mp' = MapSet(mp1, key, Head(dll2))
             /\ call' = Call("put", key, value, <<>>, {})
             /\ lastUse' = TrimUse(Touch(lastUse, key), dll', nodes')
             /\ lastPut' = TrimPut(MapSet(lastPut, key, value), dll', nodes')
             /\ UNCHANGED cap

\* the calls of a process that has not been ended
NextCacheNonPositive ==
  \/ \E key \in Keys :
       call.op # "abort" /\ Get(key) /\ UNCHANGED exceptCache
  \/ \E key \in Keys, value \in Values :
       /\ call.op # "abort" /\ ~BackOfEmpty(key)
       /\ Put(key, value) /\ UNCHANGED exceptCache
  \/ \E key \in Keys, value \in Values :
       /\ call.op # "abort"
       /\ PutBackOfEmpty(key, value) /\ UNCHANGED exceptCache

(***************************************************************************)
(* What a caller can observe of the cache, and the claims about it.        *)
(***************************************************************************)
\* the recency list as its (key, value) pairs, most recently used first
List == [i \in 1..Len(dll) |-> nodes[dll[i]]]

\* the keys of a sequence of pairs
KeySet(L) == {L[i].first : i \in 1..Len(L)}

\* a sequence of pairs without the pair of key k, the rest in order
Without(L, k) == SelectSeq(L, LAMBDA e : e.first # k)

\* the key of S whose last use (put, or get that hit) is the oldest
Oldest(u, S) ==
  CHOOSE k \in S :
    \A j \in S : \E a, b \in 1..Len(u) : u[a] = k /\ u[b] = j /\ a <= b

\* C1: after every get or put on a cache of positive capacity, mp and dll hold
\* the same keys, every key is in the list once, every entry of mp refers to
\* the list node that holds its key, and there are at most cap entries.
C1_IndexAndListAgree ==
  /\ \A i \in 1..Len(dll) : dll[i] \in DOMAIN nodes
  /\ DOMAIN mp = KeySet(List)
  /\ \A i, j \in 1..Len(dll) : List[i].first = List[j].first => i = j
  /\ \A k \in DOMAIN mp :
       \E i \in 1..Len(dll) : dll[i] = mp[k] /\ nodes[mp[k]].first = k
  /\ Cardinality(DOMAIN mp) = Len(dll)
  /\ Len(dll) <= cap

\* C1's case: a put has just evicted from a full cache of several entries
C1_Witness ==
  /\ call.op = "put" /\ call.evicted # {}
  /\ cap >= 2 /\ Len(dll) = cap /\ Cardinality(DOMAIN mp) = cap

\* C2: put of an absent key into a cache that holds cap entries removes exactly
\* one entry, the one whose last put or get hit is the oldest; the new entry is
\* then the most recently used, and the other entries keep their values and
\* their relative order.
C2_PutEvictsLeastRecentlyUsed ==
  [][ (call'.op = "put" /\ call'.key \notin KeySet(List) /\ Len(List) = cap) =>
        LET old == Oldest(lastUse, KeySet(List))
        IN /\ call'.evicted = {old}
           /\ KeySet(List') = (KeySet(List) \ {old}) \cup {call'.key}
           /\ Len(List') = Len(List)
           /\ Head(List') = Pair(call'.key, call'.value)
           /\ Tail(List') = Without(List, old)
    ]_vars

\* C2's case: a cache of capacity 2 has evicted one of its two keys and kept
\* the other, behind the new key
C2_Witness ==
  /\ cap = 2 /\ call.op = "put" /\ ~call.hit /\ call.size = 2
  /\ call.evicted # {} /\ call.evicted \cap KeySet(List) = {}
  /\ Len(List) = 2 /\ List[1].first = call.key

\* C3: get of a present key returns the value of the most recent put of that
\* key and moves the key to the front of the list; the keys, every value and
\* the order of the other entries stay as they were.
C3_GetHit ==
  [][ (call'.op = "get" /\ call'.key \in KeySet(List)) =>
        /\ call'.ret = <<lastPut[call'.key]>>
        /\ List' = <<Pair(call'.key, lastPut[call'.key])>> \o Without(List, call'.key)
        /\ Len(List') = Len(List)
    ]_vars

\* C3's case: a get has hit the key at the back of a list of three
C3_Witness ==
  /\ call.op = "get" /\ call.hit /\ call.back /\ call.size = 3
  /\ Len(List) = 3 /\ List[1].first = call.key /\ call.ret = <<List[1].second>>

\* C4: get of an absent key returns NOT_FOUND and changes nothing: the keys,
\* the values and the whole recency order are as before.
C4_GetMiss ==
  [][ (call'.op = "get" /\ call'.key \notin KeySet(List)) =>
        /\ call'.ret = <<NOT_FOUND>>
        /\ UNCHANGED <<cap, dll, nodes, mp>>
        /\ List' = List
    ]_vars

\* C4's case: a get has missed on a cache that holds entries
C4_Witness ==
  /\ call.op = "get" /\ ~call.hit /\ call.ret = <<NOT_FOUND>>
  /\ call.key \notin KeySet(List) /\ Len(List) >= 2

\* C5: put of a present key replaces that key's value and moves it to the
\* front; nothing is evicted, the number of entries is unchanged, and the
\* other entries keep their values and their relative order.
C5_PutExisting ==
  [][ (call'.op = "put" /\ call'.key \in KeySet(List)) =>
        /\ List' = <<Pair(call'.key, call'.value)>> \o Without(List, call'.key)
        /\ Len(List') = Len(List)
        /\ call'.evicted = {}
    ]_vars

\* C5's case: a full cache of three entries has been put its back key
C5_Witness ==
  /\ call.op = "put" /\ call.hit /\ call.back /\ cap = 3 /\ call.size = cap
  /\ List[1] = Pair(call.key, call.value) /\ Len(List) = cap

\* C6: a key that is present before an operation is absent after it only if
\* the operation is a put of another, absent key into a cache that holds
\* exactly cap entries.
C6_RemovedOnlyByEviction ==
  [][ \A k \in KeySet(List) \ KeySet(List') :
        /\ call'.op = "put" /\ call'.key # k
        /\ call'.key \notin KeySet(List)
        /\ Len(List) = cap
    ]_vars

\* C6's case: a key has left a cache on the put of another key
C6_Witness ==
  /\ call.op = "put" /\ call.evicted # {} /\ call.size = cap
  /\ \A k \in call.evicted : k # call.key /\ k \notin KeySet(List)

\* C7: the key of the most recent put or get hit is not the key that the next
\* eviction removes, unless it is the only key of the cache and another, new
\* key is put.
C7_LastUsedNotEvicted ==
  [][ \A k \in KeySet(List) \ KeySet(List') :
        k = lastUse[Len(lastUse)] => (Len(List) = 1 /\ call'.key # k)
    ]_vars

\* C7's case: an eviction from a cache of several keys has kept the key that
\* was used last before it
C7_Witness ==
  /\ call.evicted # {} /\ Len(List) >= 2 /\ Len(lastUse) >= 2
  /\ lastUse[Len(lastUse) - 1] \in KeySet(List)
  /\ lastUse[Len(lastUse) - 1] \notin call.evicted


\* C17: the result of a get that misses is told from every result of a get
\* that hits: a get of a key that is present, whatever value was put for it,
\* does not return NOT_FOUND, so that a get returns NOT_FOUND exactly when
\* the key is absent.
C17_MissDistinctFromData ==
  call.op = "get" => (call.ret = <<NOT_FOUND>> <=> ~call.hit)

\* C18: a cache constructed with a capacity of 0 or less is rejected at
\* construction or has the capacity 1: no put of it reaches the eviction with
\* an empty list, it never holds more than one entry, and no call of it
\* fails.
C18_NonPositiveCapacityHandled ==
  cap <= 0 =>
    \/ call.op = "rejected"
    \/ /\ ~(call.op \in {"put", "abort"} /\ ~call.hit
              /\ call.size = cap /\ call.size = 0)
       /\ Len(dll) <= 1
       /\ call.op # "abort"

(***************************************************************************)
(* The recency-counter cache of C24, and an LRUCache run side by side with *)
(* it. The recency-counter cache is no code of the repository: it is the   *)
(* cache the claim compares LRUCache with, a map from key to value and     *)
(* stamp, a counter that gives every put and every get that hits the next  *)
(* stamp, and the eviction of the key of the smallest stamp.               *)
(***************************************************************************)
\* the two caches are run until the counter is MaxClock
MaxClock == 4

\* a recency-counter cache, new
InitRef ==
  /\ ref = <<>>
  /\ clock = 0
  /\ refRet = <<>>

\* the key of r that has the smallest stamp
SmallestStamp(r) ==
  CHOOSE k \in DOMAIN r : \A j \in DOMAIN r : r[k].stamp <= r[j].stamp

\* get of the recency-counter cache: a hit stamps the key
RefGet(key) ==
  IF key \in DOMAIN ref
    THEN /\ clock' = clock + 1
         /\ ref' = [ref EXCEPT ![key].stamp = clock + 1]
         /\ refRet' = <<ref[key].value>>
    ELSE /\ refRet' = <<NOT_FOUND>>
         /\ UNCHANGED <<ref, clock>>

\* put of the recency-counter cache: the key is stamped; a key that is new
\* to a cache that holds cap keys takes the place of the key of the smallest
\* stamp
RefPut(key, value) ==
  LET kept == IF key \notin DOMAIN ref /\ Cardinality(DOMAIN ref) >= cap
                THEN DOMAIN ref \ {SmallestStamp(ref)}
                ELSE DOMAIN ref
  IN /\ clock' = clock + 1
     /\ ref' = [k \in kept \cup {key} |->
                  IF k = key THEN [value |-> value, stamp |-> clock + 1]
                  ELSE ref[k]]
     /\ refRet' = <<>>

\* the same call made of the LRUCache and of the recency-counter cache
NextRefined ==
  \/ \E key \in Keys :
       /\ clock < MaxClock
       /\ Get(key) /\ RefGet(key) /\ UNCHANGED exceptRefined
  \/ \E key \in Keys, value \in Values :
       /\ clock < MaxClock
       /\ Put(key, value) /\ RefPut(key, value) /\ UNCHANGED exceptRefined

\* C24: after every get and put made of both, the LRUCache and the
\* recency-counter cache of the same capacity hold the same keys with the
\* same values, their gets have returned the same, and the list of the
\* LRUCache, front to back, is the keys in the order of decreasing stamp.
C24_RefinesRecencyCounter ==
  /\ DOMAIN ref = KeySet(List)
  /\ \A n \in 1..Len(List) : ref[List[n].first].value = List[n].second
  /\ call.op = "get" => call.ret = refRet
  /\ \A n, m \in 1..Len(List) :
       n < m => ref[List[n].first].stamp > ref[List[m].first].stamp

\* C24's case: a put into a full cache of several keys has evicted the key of
\* the smallest stamp, which was not the key put first: a get had stamped
\* that one again
C24_Witness ==
  /\ call.op = "put" /\ call.evicted # {} /\ cap >= 2 /\ Len(List) = cap
  /\ clock = MaxClock /\ ref[List[1].first].stamp = clock
  /\ \E k \in DOMAIN ref : ref[k].stamp = clock - 1 /\ k < List[Len(List)].first
  /\ \A k \in call.evicted : k \notin DOMAIN ref /\ k > List[Len(List)].first

(***************************************************************************)
(* SlidingMedian                                                           *)
(*                                                                         *)
(* A long long does not fit TLC's integers, so the long long v is written  *)
(* as the pair <<q, r>> with v = q * Radix + r and 0 <= r < Radix (q is    *)
(* the floor of v / Radix, also for v < 0). The pairs cover |v| < 2^56,    *)
(* which holds 2^53, where double stops being exact on the integers.       *)
(* The doubles median() computes are multiples of 1/2: the double d is     *)
(* written as the pair of the integer 2 * d.                               *)
(***************************************************************************)
Radix == 2^27

\* the significand of a double, in bits
DBL_MANT_DIG == 53

\* the long long n, for an n of TLC's integers
Small(n) == <<n \div Radix, n % Radix>>

\* the long long 2^53 + d, 0 <= d < Radix
Past53(d) == <<2^(DBL_MANT_DIG - 27), d>>

\* a + b, exactly
Add(a, b) == <<a[1] + b[1] + ((a[2] + b[2]) \div Radix), (a[2] + b[2]) % Radix>>

\* -a
Negate(a) == IF a[2] = 0 THEN <<-a[1], 0>> ELSE <<-a[1] - 1, Radix - a[2]>>

\* a / 2, for an even a
Half(a) == <<a[1] \div 2, ((a[1] % 2) * Radix + a[2]) \div 2>>

\* a < b and a <= b on long long
Less(a, b) == a[1] < b[1] \/ (a[1] = b[1] /\ a[2] < b[2])
LessEq(a, b) == ~Less(b, a)

\* The integer a rounded to DBL_MANT_DIG significant bits, ties to even: what
\* the conversion of a long long to double, and the sum of two doubles that
\* hold integers, keep of the exact value. Below 2^53 in magnitude every
\* integer is kept; from 2^(53+s-1) on, only the multiples of 2^s.
RoundToMantissa(a) ==
  LET top == 2^(DBL_MANT_DIG - 27)
      s == CHOOSE e \in 0..3 : -(top * 2^e) <= a[1] /\ a[1] < top * 2^e
      unit == 2^s
      rem == a[2] % unit
      down == <<a[1], a[2] - rem>>
      up == Add(down, <<0, unit>>)
  IN IF rem = 0 THEN a
     ELSE IF 2 * rem < unit THEN down
     ELSE IF 2 * rem > unit THEN up
     ELSE IF ((a[2] - rem) \div unit) % 2 = 0 THEN down ELSE up

\* double(x), for a long long x
ToDouble(x) == LET d == RoundToMantissa(x) IN Add(d, d)

\* d + e on doubles that hold integers (rounding does not depend on the scale)
DoubleAdd(d, e) == RoundToMantissa(Add(d, e))

\* d / 2.0: exact, a change of the exponent
DoubleHalf(d) == Half(d)

\* the values the model inserts and erases
TrackerValues ==
  {Small(n) : n \in -MaxSmall..MaxSmall}
    \cup {Past53(d) : d \in 0..MaxPast}
    \cup {Negate(Past53(d)) : d \in 0..MaxPast}

\* multiset::insert(x): x goes after the elements that are not greater
MsInsert(s, x) ==
  LET n == Cardinality({i \in 1..Len(s) : LessEq(s[i], x)})
  IN SubSeq(s, 1, n) \o <<x>> \o SubSeq(s, n + 1, Len(s))

\* a find done with lower_bound(x): the first element that is not less than x
MsLowerBound(s, x) ==
  IF \E i \in 1..Len(s) : LessEq(x, s[i])
    THEN CHOOSE i \in 1..Len(s) :
           LessEq(x, s[i]) /\ \A j \in 1..(i - 1) : Less(s[j], x)
    ELSE 0

\* multiset::find(x): the position of an element equal to x, 0 for end()
MsFind(s, x) ==
  IF \E i \in 1..Len(s) : s[i] = x
    THEN CHOOSE i \in 1..Len(s) : s[i] = x
    ELSE 0

\* an erase by value, multiset::erase(*it): every element equal to the one at
\* position i leaves
MsEraseEqual(s, i) == SelectSeq(s, LAMBDA e : e # s[i])

\* multiset::erase(it): the element at position i leaves
MsErase(s, i) == SubSeq(s, 1, i - 1) \o SubSeq(s, i + 1, Len(s))

\* a read of the first element for the last
MaxOfReadsFirst(s) == s[1]

\* *prev(lo.end()): the greatest element of a non-empty multiset
MaxOf(s) == s[Len(s)]

\* a read of the last element for the first
MinOfReadsLast(s) == s[Len(s)]

\* *hi.begin(): the least element of a non-empty multiset
MinOf(s) == s[1]

\* a first loop that runs while (lo.size() > hi.size())
RECURSIVE ShrinkLoEager(_, _)
ShrinkLoEager(l, h) ==
  IF Len(l) > Len(h)
    THEN ShrinkLoEager(MsErase(l, Len(l)), MsInsert(h, MaxOf(l)))
    ELSE <<l, h>>

\* balance(), first loop: while (lo.size() > hi.size() + 1) move max(lo) to hi
RECURSIVE ShrinkLo(_, _)
ShrinkLo(l, h) ==
  IF Len(l) > Len(h) + 1
    THEN ShrinkLo(MsErase(l, Len(l)), MsInsert(h, MaxOf(l)))
    ELSE <<l, h>>

\* a balance() without its second loop
GrowLoSkipped(l, h) == <<l, h>>

\* balance(), second loop: while (lo.size() < hi.size()) move min(hi) to lo
RECURSIVE GrowLo(_, _)
GrowLo(l, h) ==
  IF Len(l) < Len(h)
    THEN GrowLo(MsInsert(l, MinOf(h)), MsErase(h, 1))
    ELSE <<l, h>>

\* history: the number of values that balance() moves from lo to hi (the
\* turns of its first loop) and from hi to lo (the turns of its second)
Moved(l, h) ==
  LET a == ShrinkLo(l, h)
      b == GrowLo(a[1], a[2])
  IN <<Len(l) - Len(a[1]), Len(b[1]) - Len(a[1])>>

\* a balance() that has its first loop only
BalanceShrinksOnly(l, h) == ShrinkLo(l, h)

\* void balance()
Balance(l, h) == LET a == ShrinkLo(l, h) IN GrowLo(a[1], a[2])

\* an insert that compares x with the least element of lo
BelongsInLoByMin(l, x) == Len(l) = 0 \/ Less(x, MinOf(l))

\* lo.empty() || x <= *prev(lo.end())
BelongsInLo(l, x) == Len(l) = 0 \/ LessEq(x, MaxOf(l))

\* the sides that median() dereferences: none when both are empty, lo
\* (*prev(lo.end())) in every other case, hi (*hi.begin()) when lo is not
\* the larger
MedianReads(l, h) ==
  IF Len(l) = 0 /\ Len(h) = 0 THEN {}
  ELSE IF Len(l) > Len(h) THEN {"lo"}
  ELSE {"lo", "hi"}

\* double median() const
Median(l, h) ==
  IF Len(l) = 0 /\ Len(h) = 0 THEN ToDouble(Small(0))
  ELSE IF Len(l) > Len(h) THEN ToDouble(MaxOf(l))
  ELSE DoubleHalf(DoubleAdd(ToDouble(MaxOf(l)), ToDouble(MinOf(h))))

InitMedian ==
  /\ lo = <<>>
  /\ hi = <<>>
  /\ active = <<>>
  /\ tcall = [op |-> "new", x |-> <<>>, found |-> "none", ret |-> <<>>,
              before |-> <<>>, moved |-> <<0, 0>>]

\* void insert(long long x)
Insert(x) ==
  /\ Len(lo) + Len(hi) < MaxActive
  /\ LET \* the sides as balance() finds them
         in == IF BelongsInLo(lo, x)
                 THEN <<MsInsert(lo, x), hi>>
                 ELSE <<lo, MsInsert(hi, x)>>
         b == Balance(in[1], in[2])
     IN /\ lo' = b[1] /\ hi' = b[2]
        /\ tcall' = [op |-> "insert", x |-> x, found |-> "none",
                     ret |-> <<>>, before |-> <<lo, hi>>,
                     moved |-> Moved(in[1], in[2])]
  /\ active' = MsInsert(active, x)

\* void erase(long long x)
Erase(x) ==
  /\ LET inLo == MsFind(lo, x)
         inHi == MsFind(hi, x)
         \* the sides as balance() finds them
         in == IF inLo # 0 THEN <<MsErase(lo, inLo), hi>>
               ELSE IF inHi # 0 THEN <<lo, MsErase(hi, inHi)>>
               ELSE <<lo, hi>>
         b == Balance(in[1], in[2])
     IN /\ lo' = b[1] /\ hi' = b[2]
        \* history: an erase that follows an insert of the same value keeps
        \* what that insert found
        /\ tcall' = [op |-> "erase", x |-> x, ret |-> <<>>,
                     found |-> IF inLo # 0 THEN "lo"
                               ELSE IF inHi # 0 THEN "hi" ELSE "none",
                     before |-> IF tcall.op = "insert" /\ tcall.x = x
                                  THEN tcall.before ELSE <<>>,
                     moved |-> Moved(in[1], in[2])]
  /\ active' = IF MsFind(active, x) # 0
                 THEN MsErase(active, MsFind(active, x))
                 ELSE active

\* a call of median(), its result kept
QueryMedian ==
  /\ tcall' = [op |-> "median", x |-> <<>>, found |-> "none",
               ret |-> Median(lo, hi), before |-> <<>>, moved |-> <<0, 0>>]
  /\ UNCHANGED <<lo, hi, active>>

NextMedian ==
  \/ \E x \in TrackerValues : Insert(x) /\ UNCHANGED exceptMedian
  \/ \E x \in TrackerValues : Erase(x) /\ UNCHANGED exceptMedian
  \/ QueryMedian /\ UNCHANGED exceptMedian

(***************************************************************************)
(* The claims about the tracker.                                           *)
(***************************************************************************)
\* the median of the ascending sequence a of long long, as a double would
\* hold it were there no rounding: the middle element, or the mean of the
\* two middle elements
TrueMedian(a) ==
  LET n == Len(a)
  IN IF n % 2 = 1
       THEN Add(a[(n + 1) \div 2], a[(n + 1) \div 2])
       ELSE Add(a[n \div 2], a[n \div 2 + 1])

\* C8: after every insert or erase, also an erase of a value that is not
\* there or on an empty tracker, size(lo) is size(hi) or size(hi) + 1.
C8_SizesBalanced == Len(lo) = Len(hi) \/ Len(lo) = Len(hi) + 1

\* C8's case: an erase has found nothing to remove in a tracker that holds an
\* odd number of values, several of them
C8_Witness ==
  /\ tcall.op = "erase" /\ tcall.found = "none"
  /\ Len(hi) >= 1 /\ Len(lo) = Len(hi) + 1

\* C9: after every insert or erase, every value of lo is <= every value of
\* hi; either side may hold duplicates.
C9_LoBelowHi ==
  \A i \in 1..Len(lo), j \in 1..Len(hi) : LessEq(lo[i], hi[j])

\* C9's case: an erase has left equal values on the two sides, and a
\* duplicate within lo
C9_Witness ==
  /\ tcall.op = "erase" /\ tcall.found # "none"
  /\ Len(lo) >= 2 /\ Len(hi) >= 1
  /\ MaxOf(lo) = MinOf(hi) /\ lo[Len(lo) - 1] = MaxOf(lo)

\* C10: whenever at least one value is active, median() is the true median of
\* the active values: the middle one of an odd number, the untruncated mean
\* of the two middle ones of an even number.
C10_MedianIsTrueMedian ==
  (tcall.op = "median" /\ Len(active) >= 1) => tcall.ret = TrueMedian(active)

\* What median() does give on every input: the true median whenever the
\* middle values, and the sum of the two of an even count, are integers that
\* a double holds exactly (all values of magnitude up to 2^52 are such).
MedianOfExactValues ==
  LET n == Len(active)
      a == active[(n + 1) \div 2]
      b == active[n \div 2 + 1]
  IN (/\ tcall.op = "median" /\ n >= 1
      /\ RoundToMantissa(a) = a /\ RoundToMantissa(b) = b
      /\ RoundToMantissa(Add(a, b)) = Add(a, b))
       => tcall.ret = TrueMedian(active)

\* the number of elements of the sequence s that are v
Count(s, v) == Cardinality({n \in 1..Len(s) : s[n] = v})

\* C13: an erase(x) on a tracker that holds x, in lo, in hi or in both,
\* removes one occurrence of x: lo and hi together hold one x fewer and as
\* many of every other value as before.
C13_EraseRemovesOne ==
  [][ (tcall'.op = "erase" /\ Count(lo \o hi, tcall'.x) >= 1) =>
        \A v \in TrackerValues :
          Count(lo' \o hi', v) =
            Count(lo \o hi, v) - (IF v = tcall'.x THEN 1 ELSE 0) ]_vars

\* C13's case: an erase has removed an x of which both sides still hold one
C13_Witness ==
  /\ tcall.op = "erase" /\ tcall.found # "none"
  /\ Count(lo, tcall.x) >= 1 /\ Count(hi, tcall.x) >= 1
  /\ Len(active) = Len(lo) + Len(hi)

\* C14: an erase(x) on a tracker that holds no x, an empty tracker too,
\* changes nothing: lo and hi are what they were (the balance() that ends the
\* call moves nothing), hence the size and the median too.
C14_EraseAbsentIsNoOp ==
  [][ (tcall'.op = "erase" /\ Count(lo \o hi, tcall'.x) = 0) =>
        /\ lo' = lo /\ hi' = hi
        /\ Len(lo') + Len(hi') = Len(lo) + Len(hi)
        /\ Median(lo', hi') = Median(lo, hi)
        /\ tcall'.found = "none" ]_vars

\* C14's case: an erase has looked for a value that lies between the values
\* of a tracker of two full sides, and has found none
C14_Witness ==
  /\ tcall.op = "erase" /\ tcall.found = "none"
  /\ Count(lo \o hi, tcall.x) = 0
  /\ Len(lo) = Len(hi) /\ Len(lo) >= 1
  /\ Less(MaxOf(lo), tcall.x) /\ Less(tcall.x, MinOf(hi))

\* C15: median() of a tracker that holds no value is the double 0, and in
\* every reachable state median() dereferences non-empty sides only (not one
\* when the tracker is empty).
C15_MedianOfEmpty ==
  /\ (tcall.op = "median" /\ active = <<>>) => tcall.ret = ToDouble(Small(0))
  /\ active = <<>> => MedianReads(lo, hi) = {}
  /\ "lo" \in MedianReads(lo, hi) => Len(lo) >= 1
  /\ "hi" \in MedianReads(lo, hi) => Len(hi) >= 1

\* C15's case: median() has been called on a tracker that holds no value
C15_Witness ==
  /\ tcall.op = "median" /\ active = <<>>
  /\ lo = <<>> /\ hi = <<>> /\ tcall.ret = <<0, 0>>

\* C16: an erase(x) that follows an insert(x) at once leaves lo and hi as
\* they were before the insert.
C16_InsertThenErase ==
  [][ (tcall.op = "insert" /\ tcall'.op = "erase" /\ tcall'.x = tcall.x) =>
        <<lo', hi'>> = tcall.before ]_vars

\* C16's case: an erase has followed an insert of the same value, of which
\* the tracker holds more, on both sides
C16_Witness ==
  /\ tcall.op = "erase" /\ tcall.before = <<lo, hi>>
  /\ Len(lo) >= 2 /\ Len(hi) >= 1
  /\ MaxOf(lo) = tcall.x /\ MinOf(hi) # tcall.x

\* C22: the balance() of an insert or an erase moves at most one value, the
\* greatest of lo into hi or the least of hi into lo and not both, and leaves
\* size(lo) equal to size(hi) or to size(hi) + 1.
C22_BalanceMovesOne ==
  tcall.op \in {"insert", "erase"} =>
    /\ tcall.moved \in {<<0, 0>>, <<1, 0>>, <<0, 1>>}
    /\ (Len(lo) = Len(hi) \/ Len(lo) = Len(hi) + 1)

\* C22's case: an erase has taken a value from lo and its balance() has
\* moved the least value of hi into lo, which holds several values
C22_Witness ==
  /\ tcall.op = "erase" /\ tcall.found = "lo" /\ tcall.moved = <<0, 1>>
  /\ Len(lo) >= 2 /\ Len(lo) = Len(hi) + 1

\* the greatest whole number that is at most n / 2, and the least that is at
\* least n / 2
Floor2(n) == n \div 2
Ceil2(n) == (n + 1) \div 2

\* C23: lo and hi are a function of the multiset of the active values: of the
\* n active values lo holds the ceil(n/2) smallest and hi the floor(n/2)
\* largest, whatever the calls that left them; so is the median.
C23_StateOfMultiset ==
  LET n == Len(active)
  IN /\ lo = SubSeq(active, 1, Ceil2(n))
     /\ hi = SubSeq(active, Ceil2(n) + 1, n)
     /\ Len(hi) = Floor2(n)
     /\ tcall.op = "median" =>
          tcall.ret = Median(SubSeq(active, 1, Ceil2(n)),
                             SubSeq(active, Ceil2(n) + 1, n))

\* C23's case: an erase has taken a value from hi and left three values, two
\* of them equal and on the two sides
C23_Witness ==
  /\ tcall.op = "erase" /\ tcall.found = "hi"
  /\ Len(active) = MaxActive - 1 /\ Len(lo) = Len(hi) + 1
  /\ MaxOf(lo) = MinOf(hi) /\ lo[1] # MaxOf(lo)

(***************************************************************************)
(* main of sliding_window_median.cpp: the loop that slides a window of k   *)
(* elements over nums and keeps the median of every full window.           *)
(***************************************************************************)
\* the loop reads vectors of at most MaxNums elements
MaxNums == 4

\* vector<int> nums = {1, 3, -1, -3, 5, 3, 6, 7}; int k = 3;
DemoNums == <<1, 3, -1, -3, 5, 3, 6, 7>>
DemoK == 3

\* the vectors the loop is run on: the one of main, and every short one
Inputs ==
  {DemoNums} \cup UNION {[1..n -> -MaxSmall..MaxSmall] : n \in 1..MaxNums}

\* main is not running
NoMain ==
  /\ nums = <<>>
  /\ mainK = 0
  /\ mainI = 0
  /\ medians = <<>>
  /\ pc = "idle"

\* SlidingMedian win; vector<double> medians; int i = 0, for every vector
\* and every window that is no longer than the vector (and fits the tracker
\* of the model)
InitMain ==
  /\ nums \in Inputs
  /\ mainK \in 1..MaxActive
  /\ mainK <= Len(nums)
  /\ mainI = 0
  /\ medians = <<>>
  /\ pc = "insert"

\* a test for the full window that is late by one element: i >= k
WindowFullLate == mainI >= mainK

\* i >= k - 1
WindowFull == mainI >= mainK - 1

\* i < (int)nums.size(); win.insert(nums[i]); if (i >= k - 1)
LoopInsert ==
  /\ pc = "insert"
  /\ mainI < Len(nums)
  /\ Insert(Small(nums[mainI + 1]))
  /\ IF WindowFull
       THEN pc' = "query" /\ UNCHANGED mainI
       ELSE pc' = "insert" /\ mainI' = mainI + 1
  /\ UNCHANGED <<nums, mainK, medians>>

\* the element that has just entered the window: nums[i]
LeavingIsNewest == nums[mainI + 1]

\* the element that leaves the window: nums[i - k + 1]
Leaving == nums[mainI - mainK + 2]

\* medians.push_back(win.median()); win.erase(nums[i - k + 1]); ++i
LoopQuery ==
  /\ pc = "query"
  /\ medians' = Append(medians, Median(lo, hi))
  /\ Erase(Small(Leaving))
  /\ mainI' = mainI + 1
  /\ pc' = "insert"
  /\ UNCHANGED <<nums, mainK>>

\* the loop ends: i == (int)nums.size()
LoopExit ==
  /\ pc = "insert"
  /\ mainI >= Len(nums)
  /\ pc' = "done"
  /\ UNCHANGED <<nums, mainK, mainI, medians, medianVars>>

NextMain ==
  \/ LoopInsert /\ UNCHANGED exceptMain
  \/ LoopQuery /\ UNCHANGED exceptMain
  \/ LoopExit /\ UNCHANGED exceptMain

\* the elements of the sequence s of long long, ascending
RECURSIVE Ascending(_)
Ascending(s) ==
  IF s = <<>> THEN <<>> ELSE MsInsert(Ascending(Tail(s)), Head(s))

\* the window of W elements of nums that starts at its j-th element (j from
\* 1), as long long
Window(j, W) == [m \in 1..W |-> Small(nums[j + m - 1])]

\* the double that holds the int n
Exactly(n) == Add(Small(n), Small(n))

\* C11 as the specification has it: on {1, 3, -1, -3, 5, 3, 6, 7} with
\* k = 3 the loop ends with the medians 1, -1, -1, 3, 5, 3, 6.
C11_DemoMediansAsSpecified ==
  (nums = DemoNums /\ mainK = DemoK /\ pc = "done")
    => medians = <<Exactly(1), Exactly(-1), Exactly(-1), Exactly(3),
                   Exactly(5), Exactly(3), Exactly(6)>>

\* C11, corrected: on {1, 3, -1, -3, 5, 3, 6, 7} with k = 3 the loop ends
\* with the six medians 1, -1, -1, 3, 5, 6, one for each of the six windows.
C11_DemoMedians ==
  (nums = DemoNums /\ mainK = DemoK /\ pc = "done")
    => medians = <<Exactly(1), Exactly(-1), Exactly(-1), Exactly(3),
                   Exactly(5), Exactly(6)>>

\* C11's case: main's loop has run to its end on main's vector and window
C11_Witness ==
  /\ nums = DemoNums /\ mainK = DemoK /\ pc = "done"
  /\ mainI = Len(DemoNums) /\ Len(medians) = Len(DemoNums) - DemoK + 1

\* C12: for every nums of length n and every k with 1 <= k <= n, at each
\* query of the median the tracker holds exactly nums[i-k+1..i], the j-th
\* median is the median of nums[j..j+k-1], and the loop ends with n-k+1
\* medians.
C12_WindowMedians ==
  /\ pc = "query" =>
       /\ lo \o hi = Ascending(Window(mainI - mainK + 2, mainK))
       /\ Len(medians) = mainI - mainK + 1
  /\ \A j \in 1..Len(medians) :
       medians[j] = TrueMedian(Ascending(Window(j, mainK)))
  /\ pc = "done" => Len(medians) = Len(nums) - mainK + 1

\* C12's case: the loop has ended after several windows of several elements
\* that hold a duplicate, with medians that differ
C12_Witness ==
  /\ pc = "done" /\ mainK >= 2 /\ Len(medians) >= 2
  /\ medians[1] # medians[2]
  /\ \E a, b \in 1..Len(nums) : a # b /\ nums[a] = nums[b]

(***************************************************************************)
(* autocomplete.cpp: prefix_search on a sorted vector of strings.          *)
(*                                                                         *)
(* A string is the sequence of its chars, a char the number that           *)
(* char_traits compares: operator< and compare on strings are              *)
(* lexicographic in these.                                                 *)
(***************************************************************************)
\* a word has at most MaxWord chars
MaxWord == 2
\* a dictionary has at most MaxDict words
MaxDict == 3

\* the chars of the model's strings: two, as 'a' and 'b'
Chars == {1, 2}

\* the strings of at most n chars, the empty one too
Strings(n) == UNION {[1..m -> Chars] : m \in 0..n}

Min(a, b) == IF a < b THEN a ELSE b

\* a < b on strings: a is a proper prefix of b, or is less at the first
\* char that differs
StrLess(a, b) ==
  \/ /\ Len(a) < Len(b)
     /\ \A n \in 1..Len(a) : a[n] = b[n]
  \/ \E n \in 1..Min(Len(a), Len(b)) :
       /\ a[n] < b[n]
       /\ \A m \in 1..(n - 1) : a[m] = b[m]

\* a compare of the whole word with q: w.compare(q)
CompareWhole(w, n, q) ==
  IF w = q THEN 0 ELSE IF StrLess(w, q) THEN -1 ELSE 1

\* w.compare(0, n, q): the first n chars of w, all of w if it has fewer,
\* compared with q; negative, 0 or positive
Compare(w, n, q) ==
  LET front == SubSeq(w, 1, Min(n, Len(w)))
  IN IF front = q THEN 0 ELSE IF StrLess(front, q) THEN -1 ELSE 1

\* std::lower_bound on the len elements of d from position first on: the
\* halving search of the library
RECURSIVE LowerBoundIn(_, _, _, _)
LowerBoundIn(d, q, first, len) ==
  IF len <= 0 THEN first
  ELSE LET half == len \div 2
           middle == first + half
       IN IF StrLess(d[middle], q)
            THEN LowerBoundIn(d, q, middle + 1, len - half - 1)
            ELSE LowerBoundIn(d, q, first, half)

\* lower_bound(dict.begin(), dict.end(), p): a position, Len(d) + 1 for end()
LowerBound(d, q) == LowerBoundIn(d, q, 1, Len(d))

\* for (auto it = lo; it != dict.end(); ++it) {
\*   if (it->compare(0, p.size(), p) != 0) break;  res.push_back(*it); }
RECURSIVE Collect(_, _, _, _)
Collect(d, q, it, r) ==
  IF it > Len(d) THEN r
  ELSE IF Compare(d[it], Len(q), q) # 0 THEN r
  ELSE Collect(d, q, it + 1, Append(r, d[it]))

\* vector<string> prefix_search(const vector<string>& dict, const string& p)
prefix_search(d, q) == Collect(d, q, LowerBound(d, q), <<>>)

\* d is sorted as sort(dict.begin(), dict.end()) leaves it
IsSorted(d) == \A n \in 1..(Len(d) - 1) : ~StrLess(d[n + 1], d[n])

\* the sorted dictionaries of the model, words repeated or not
Dicts ==
  {d \in UNION {[1..n -> Strings(MaxWord)] : n \in 0..MaxDict} : IsSorted(d)}

\* prefix_search is not called
NoSearch ==
  /\ dict = <<>>
  /\ p = <<>>
  /\ res = <<>>
  /\ searchPc = "idle"

\* a sorted dictionary and a prefix, which may be longer than every word
InitSearch ==
  /\ dict \in Dicts
  /\ p \in Strings(MaxWord + 1)
  /\ res = <<>>
  /\ searchPc = "call"

\* prefix_search(dict, p), called
Search ==
  /\ searchPc = "call"
  /\ res' = prefix_search(dict, p)
  /\ searchPc' = "done"
  /\ UNCHANGED <<dict, p>>

NextSearch == Search /\ UNCHANGED exceptSearch

\* w starts with q
StartsWith(w, q) == Len(q) <= Len(w) /\ SubSeq(w, 1, Len(q)) = q

\* C19: for every sorted dictionary and every prefix p, the empty one and one
\* longer than every word too, prefix_search returns the words of the
\* dictionary that start with p, each as often as the dictionary has it, in
\* the dictionary's order, and nothing else.
C19_PrefixSearch ==
  searchPc = "done" => res = SelectSeq(dict, LAMBDA w : StartsWith(w, p))

\* C19's case: prefix_search has returned a word twice, a proper prefix of
\* which was asked for, and has left out a word that follows
C19_Witness ==
  /\ searchPc = "done" /\ Len(res) = 2 /\ res[1] = res[2]
  /\ Len(p) >= 1 /\ Len(p) < Len(res[1])
  /\ Len(dict) = 3 /\ dict[3] # res[2]

(***************************************************************************)
(* main of top_k.cpp: N words are read and counted, the K most frequent    *)
(* are printed.                                                            *)
(***************************************************************************)
\* at most MaxN words are read
MaxN == 3

\* what cin >> s reads: a string that is not empty
Words == Strings(MaxWord) \ {<<>>}

\* top_k is not running
NoTop ==
  /\ N = 0
  /\ K = 0
  /\ cnt = <<>>
  /\ topI = 0
  /\ out = <<>>
  /\ seen = <<>>
  /\ topPc = "idle"

\* cin >> N >> K, for an N and a K that are not negative (K may be more than
\* the number of words); unordered_map<string,int> cnt; int i = 0
InitTop ==
  /\ N \in 0..MaxN
  /\ K \in 0..(MaxN + 1)
  /\ cnt = <<>>
  /\ topI = 0
  /\ out = <<>>
  /\ seen = <<>>
  /\ topPc = "read"

\* cnt[s]++: a word that is not in the map enters it with the count 0
Increment(c, s) ==
  [w \in DOMAIN c \cup {s} |->
     IF w = s THEN (IF s \in DOMAIN c THEN c[s] ELSE 0) + 1 ELSE c[w]]

\* history: the word s put in its place among the words read
Seen(r, s) ==
  LET n == Cardinality({m \in 1..Len(r) : ~StrLess(s, r[m])})
  IN SubSeq(r, 1, n) \o <<s>> \o SubSeq(r, n + 1, Len(r))

\* i < N; string s; cin >> s; cnt[s]++; ++i
ReadWord(s) ==
  /\ topPc = "read"
  /\ topI < N
  /\ cnt' = Increment(cnt, s)
  /\ topI' = topI + 1
  /\ seen' = Seen(seen, s)
  /\ UNCHANGED <<N, K, out, topPc>>

\* for (auto &p : cnt) v.emplace_back(p.first, p.second): the pairs of cnt
\* in the order in which the unordered_map is iterated, which is any order
Orders(c) ==
  {[n \in 1..Cardinality(DOMAIN c) |-> Pair(f[n], c[f[n]])] :
     f \in {g \in [1..Cardinality(DOMAIN c) -> DOMAIN c] :
              \A a, b \in DOMAIN g : a # b => g[a] # g[b]}}

\* a cmp on the words alone
CmpByWord(a, b) == StrLess(a.first, b.first)

\* cmp: if (a.second != b.second) return a.second > b.second;
\*      return a.first < b.first;
Cmp(a, b) ==
  IF a.second # b.second THEN a.second > b.second
  ELSE StrLess(a.first, b.first)

\* sort(v.begin(), v.end(), cmp): the elements of v, each before those that
\* cmp puts after it
RECURSIVE Sort(_)
Sort(v) ==
  IF v = <<>> THEN <<>>
  ELSE LET front == Sort(SubSeq(v, 1, Len(v) - 1))
           e == v[Len(v)]
           n == Cardinality({m \in 1..Len(front) : ~Cmp(e, front[m])})
       IN SubSeq(front, 1, n) \o <<e>> \o SubSeq(front, n + 1, Len(front))

\* the position from n on of the element that cmp puts before all others
\* from n on
First(v, n) ==
  CHOOSE j \in n..Len(v) : \A m \in n..Len(v) : m = j \/ Cmp(v[j], v[m])

\* partial_sort, its positions n..middle to be filled yet
RECURSIVE PartialSortFrom(_, _, _)
PartialSortFrom(v, n, middle) ==
  IF n > middle THEN v
  ELSE LET j == First(v, n)
       IN PartialSortFrom([v EXCEPT ![n] = v[j], ![j] = v[n]], n + 1, middle)

\* a sort of the first middle elements among themselves:
\* sort(v.begin(), v.begin() + K, cmp)
SortOfFront(v, middle) ==
  Sort(SubSeq(v, 1, middle)) \o SubSeq(v, middle + 1, Len(v))

\* partial_sort(v.begin(), v.begin() + middle, v.end(), cmp): the first
\* middle positions hold the elements that cmp puts first, in cmp's order;
\* the order of the others is not specified (here: as selection leaves them)
PartialSort(v, middle) == PartialSortFrom(v, 1, middle)

\* v.resize(n), n <= v.size()
Resize(v, n) == SubSeq(v, 1, n)

\* i == N; v filled from cnt; if ((size_t)K < v.size()) { partial_sort;
\* resize } else sort; for (auto &p : v) cout << p.first << " " << p.second
PrintTopK ==
  /\ topPc = "read"
  /\ topI >= N
  /\ \E v \in Orders(cnt) :
       out' = IF K < Len(v) THEN Resize(PartialSort(v, K), K) ELSE Sort(v)
  /\ topPc' = "done"
  /\ UNCHANGED <<N, K, cnt, topI, seen>>

NextTop ==
  \/ \E s \in Words : ReadWord(s) /\ UNCHANGED exceptTop
  \/ PrintTopK /\ UNCHANGED exceptTop

\* the words read, each once
Distinct == {seen[n] : n \in 1..Len(seen)}

\* the line of the word w: w and the number of times it was read
Line(w) == Pair(w, Count(seen, w))

\* line a ranks before line b: more occurrences, or as many and the lesser
\* word
RanksBefore(a, b) ==
  a.second > b.second \/ (a.second = b.second /\ StrLess(a.first, b.first))

\* C20: for every N words and every K >= 0, top_k prints min(K, number of
\* distinct words) lines, each a word read and the number of times it was
\* read, no word twice, by count descending and by word ascending among equal
\* counts, and no word that is not printed ranks before one that is.
C20_TopK ==
  topPc = "done" =>
    /\ Len(out) = Min(K, Cardinality(Distinct))
    /\ \A a \in 1..Len(out) :
         out[a].first \in Distinct /\ out[a] = Line(out[a].first)
    /\ \A a, b \in 1..Len(out) :
         a < b => (out[a].first # out[b].first /\ RanksBefore(out[a], out[b]))
    /\ \A w \in Distinct \ {out[a].first : a \in 1..Len(out)} :
         \A a \in 1..Len(out) : RanksBefore(out[a], Line(w))

\* C20's case: the one line asked for has been printed, of the word read
\* twice, and not the line of a lesser word read once
C20_Witness ==
  /\ topPc = "done" /\ K >= 1 /\ Len(out) = K /\ Cardinality(Distinct) > K
  /\ out[K].second >= 2
  /\ \E w \in Distinct :
       StrLess(w, out[K].first) /\ Line(w).second < out[K].second

(***************************************************************************)
(* mergeK (k_way_merge.cpp of the README, printed at the end of the        *)
(* guide): the merge of sorted vectors through a priority_queue of Nodes   *)
(* {val, i, j}, lists[i][j] == val. i and j count from 0 as in the code:   *)
(* lists[i][j] of the code is lists[i + 1][j + 1] here.                    *)
(***************************************************************************)
\* at most MaxLists vectors are merged
MaxLists == 2
\* a vector has at most MaxList elements, which are 1..MaxList
MaxList == 2

\* the sorted vectors of the model, the empty one too
SortedLists ==
  {l \in UNION {[1..n -> 1..MaxList] : n \in 0..MaxList} :
     \A n \in 1..(Len(l) - 1) : l[n] <= l[n + 1]}

\* mergeK is not called
NoMerge ==
  /\ lists = <<>>
  /\ pq = {}
  /\ mergeOut = <<>>
  /\ consumed = <<>>
  /\ mergePc = "idle"

\* mergeK(lists) is entered, for every vector of sorted vectors, the empty
\* one too; pq and out are empty
InitMerge ==
  /\ lists \in UNION {[1..n -> SortedLists] : n \in 0..MaxLists}
  /\ pq = {}
  /\ mergeOut = <<>>
  /\ consumed = [n \in 1..Len(lists) |-> <<>>]
  /\ mergePc = "fill"

\* struct Node { int val, i, j; }
Node(val, i, j) == [val |-> val, i |-> i, j |-> j]

\* a cmp that makes the greatest val the top
cmpNodeLess(a, b) == a.val < b.val

\* cmp: return a.val > b.val
cmpNode(a, b) == a.val > b.val

\* pq.top(): a Node that cmp puts before no other Node of pq; which one of
\* several is not specified
Tops(q) == {n \in q : \A m \in q : ~cmpNode(n, m)}

\* for (int i = 0; i < (int)lists.size(); ++i)
\*   if (!lists[i].empty()) pq.push({lists[i][0], i, 0});
Fill ==
  /\ mergePc = "fill"
  /\ pq' = {Node(lists[n][1], n - 1, 0) :
              n \in {m \in 1..Len(lists) : lists[m] # <<>>}}
  /\ mergePc' = "merge"
  /\ UNCHANGED <<lists, mergeOut, consumed>>

\* while (!pq.empty()) { auto cur = pq.top(); pq.pop(); out.push_back(cur.val);
\*   if (cur.j + 1 < (int)lists[cur.i].size())
\*     pq.push({lists[cur.i][cur.j+1], cur.i, cur.j+1}); }   one turn of it
Pop ==
  /\ mergePc = "merge"
  /\ pq # {}
  /\ \E cur \in Tops(pq) :
       /\ mergeOut' = Append(mergeOut, cur.val)
       /\ pq' = (pq \ {cur}) \cup
                  (IF cur.j + 1 < Len(lists[cur.i + 1])
                     THEN {Node(lists[cur.i + 1][cur.j + 2], cur.i, cur.j + 1)}
                     ELSE {})
       /\ consumed' = [consumed EXCEPT ![cur.i + 1] = Append(@, cur.j)]
  /\ UNCHANGED <<lists, mergePc>>

\* pq.empty(): return out
Return ==
  /\ mergePc = "merge"
  /\ pq = {}
  /\ mergePc' = "done"
  /\ UNCHANGED <<lists, pq, mergeOut, consumed>>

NextMerge ==
  \/ Fill /\ UNCHANGED exceptMerge
  \/ Pop /\ UNCHANGED exceptMerge
  \/ Return /\ UNCHANGED exceptMerge

\* the elements of all the vectors of ls, one vector after the other
RECURSIVE Flatten(_)
Flatten(ls) == IF ls = <<>> THEN <<>> ELSE Head(ls) \o Flatten(Tail(ls))

\* in every state of mergeK: pq holds at most one Node of each vector, the
\* Node of its first element that has not left pq; the elements of each
\* vector leave pq in the order of their indices; and what is returned is in
\* non-decreasing order and holds every element of every vector once
MergeKSafe ==
  /\ \A a, b \in pq : a.i = b.i => a = b
  /\ \A n \in pq :
       /\ n.j = Len(consumed[n.i + 1])
       /\ n.val = lists[n.i + 1][n.j + 1]
  /\ \A n \in 1..Len(lists) :
       /\ consumed[n] = [m \in 1..Len(consumed[n]) |-> m - 1]
       /\ Len(consumed[n]) <= Len(lists[n])
  /\ mergePc = "done" =>
       /\ \A n \in 1..(Len(mergeOut) - 1) : mergeOut[n] <= mergeOut[n + 1]
       /\ Len(mergeOut) = Len(Flatten(lists))
       /\ \A x \in 1..MaxList :
            Count(mergeOut, x) = Count(Flatten(lists), x)

\* C21: for every vector of sorted vectors, empty vectors and the empty
\* vector of vectors too, mergeK ends and returns, in non-decreasing order,
\* every element of every vector once; the elements of each vector are taken
\* in the order of their indices, pq holding one Node of a vector at a time.
C21_MergeK == []MergeKSafe /\ <>(mergePc = "done")

\* C21's case: mergeK has returned the merge of an empty vector and a vector
\* of several elements, or of vectors that share a value
C21_Witness ==
  /\ mergePc = "done" /\ Len(lists) = MaxLists /\ Len(mergeOut) >= MaxList
  /\ \/ lists[1] = <<>>
     \/ \E x \in 1..MaxList : Count(lists[1], x) >= 1 /\ Count(lists[2], x) >= 1

(***************************************************************************)
(* The specifications.                                                     *)
(***************************************************************************)
Init == InitCache /\ InitRef /\ InitMedian /\ NoMain /\ NoSearch /\ NoTop /\ NoMerge

Next == NextCache \/ NextMedian

\* an LRUCache alone
SpecCache == Init /\ [][NextCache]_vars

\* an LRUCache and a recency-counter cache, the same calls made of both
SpecRefined == Init /\ [][NextRefined]_vars

\* an LRUCache of capacity 0 or less alone
InitNonPositive ==
  /\ InitCacheNonPositive /\ InitRef
  /\ InitMedian /\ NoMain /\ NoSearch /\ NoTop /\ NoMerge

SpecCacheNonPositive == InitNonPositive /\ [][NextCacheNonPositive]_vars

\* a SlidingMedian alone (the capacity of the cache, which is not called, is
\* of no account)
InitMedianAlone == Init /\ cap = 1

SpecMedian == InitMedianAlone /\ [][NextMedian]_vars

\* main of sliding_window_median.cpp alone
InitMainAlone ==
  /\ InitCache /\ cap = 1 /\ InitRef
  /\ InitMedian /\ InitMain /\ NoSearch /\ NoTop /\ NoMerge

SpecMain == InitMainAlone /\ [][NextMain]_vars

\* a call of prefix_search alone
InitSearchAlone ==
  /\ InitCache /\ cap = 1 /\ InitRef
  /\ InitMedian /\ NoMain /\ InitSearch /\ NoTop /\ NoMerge

SpecSearch == InitSearchAlone /\ [][NextSearch]_vars

\* main of top_k.cpp alone
InitTopAlone ==
  /\ InitCache /\ cap = 1 /\ InitRef
  /\ InitMedian /\ NoMain /\ NoSearch /\ InitTop /\ NoMerge

SpecTop == InitTopAlone /\ [][NextTop]_vars

\* a call of mergeK alone; mergeK is sequential code that runs on
InitMergeAlone ==
  /\ InitCache /\ cap = 1 /\ InitRef
  /\ InitMedian /\ NoMain /\ NoSearch /\ NoTop /\ InitMerge

SpecMerge == InitMergeAlone /\ [][NextMerge]_vars /\ WF_vars(NextMerge)

\* both
Spec == Init /\ [][Next]_vars

====
